---- MODULE Spec2Model ----
(***************************************************************************)
(* Model of the standings server of the fantasy-football league            *)
(* (src/server.js): the in-memory season cache seasonsData, the persisted  *)
(* file, the request handlers and recalculateStandings.                    *)
(*                                                                         *)
(* Encoding of JavaScript values:                                          *)
(*   - a score is NullScore (null) or <<n>> for the number n;              *)
(*   - a team reference is a string; null is the string "null", which is   *)
(*     also the property key JavaScript uses for stats[null];              *)
(*   - an optional string field that is not set holds "absent"; an         *)
(*     optional place that is not set holds Absent;                        *)
(*   - an object is a record whose fields are the keys the model follows;  *)
(*   - seasonsData is a plain object: a lookup seasonsData[year] also      *)
(*     finds the keys of Object.prototype, and inherited holds what the    *)
(*     handlers have written on the object found that way;                 *)
(*   - editor holds the state of the season editor of the client           *)
(*     (src/unnamed/part_005): its weeks and its teams; a week of the      *)
(*     editor is the list of its matchups, and the value "" is the one of  *)
(*     the option "Select team...".                                        *)
(***************************************************************************)
EXTENDS Integers, Sequences, FiniteSets, TLC

VARIABLES seasonsData, disk, last, res, console, saveFailures, inherited, editor

vars == <<seasonsData, disk, last, res, console, saveFailures, inherited, editor>>

\* ------------------------------------------------------------------------
\* Bounds of the model
\* ------------------------------------------------------------------------
MaxScore == 2

MaxMatchups == 1

MaxSaveFailures == 1

\* ------------------------------------------------------------------------
\* Values
\* ------------------------------------------------------------------------
NullScore == <<>>

Num(n) == <<n>>

Scores == {NullScore} \cup {Num(n) : n \in 0..MaxScore}

NullTeam == "null"

BYE == "BYE"

Absent == 0

PlayoffStart == 15

RosterNames == <<"A", "B", "C">>

\* keys every JavaScript object inherits from Object.prototype: stats[k] is
\* truthy for them although no roster team has that name
ObjectPrototypeKeys == {"constructor"}

WeekKeys == {"1", "2", "15"}

WeekNumber(k) == CASE k = "1" -> 1 [] k = "2" -> 2 [] k = "15" -> 15

\* a week key that is not a number: a PUT stores any :weekNum as a key
FinalKey == "final"

\* Object.entries lists integer-like keys first, in ascending numeric order,
\* and the other keys after them
RECURSIVE WeekOrder(_)
WeekOrder(keys) ==
  IF keys = {} THEN <<>>
  ELSE IF keys \subseteq {FinalKey} THEN <<FinalKey>>
  ELSE LET k == CHOOSE x \in keys \ {FinalKey} :
                  \A y \in keys \ {FinalKey} : WeekNumber(x) <= WeekNumber(y)
       IN <<k>> \o WeekOrder(keys \ {k})

\* ------------------------------------------------------------------------
\* recalculateStandings (src/server.js:71-195)
\* ------------------------------------------------------------------------
ZeroStats == [wins |-> 0, losses |-> 0, ties |-> 0, pf |-> 0, pa |-> 0]

\* lines 89-99: one zeroed bucket per roster team, keyed by team.name
InitStats(teams) == [n \in {teams[i].name : i \in DOMAIN teams} |-> ZeroStats]

\* lines 109-110: parseFloat(score) || 0
parseScore(s) == IF s = NullScore THEN 0 ELSE s[1]

\* the truthiness of stats[name] (line 116, line 154)
HasStats(stats, name) == name \in DOMAIN stats \/ name \in ObjectPrototypeKeys

\* skip only when neither team resolves
SkipIfBothUnknown(stats, name1, name2) == ~HasStats(stats, name1) /\ ~HasStats(stats, name2)

\* line 116: skip if either team does not resolve in stats
SkipMatchup(stats, name1, name2) == ~HasStats(stats, name1) \/ ~HasStats(stats, name2)

\* stats[name].field += d; a write through an inherited key lands on the
\* prototype's object and never on a roster bucket
Add(stats, name, field, d) ==
  IF name \in DOMAIN stats THEN [stats EXCEPT ![name][field] = @ + d] ELSE stats

\* the points of a game replace the points a team had, and are not added
AccumulatePointsLatest(stats, name1, name2, score1, score2) ==
  LET Set(st, name, field, d) ==
        IF name \in DOMAIN st THEN [st EXCEPT ![name][field] = d] ELSE st
  IN  Set(Set(Set(Set(stats, name1, "pf", score1), name1, "pa", score2),
              name2, "pf", score2), name2, "pa", score1)

\* lines 121-125
AccumulatePoints(stats, name1, name2, score1, score2) ==
  LET s1 == Add(stats, name1, "pf", score1)
      s2 == Add(s1, name1, "pa", score2)
      s3 == Add(s2, name2, "pf", score2)
  IN  Add(s3, name2, "pa", score1)

\* a game counts as soon as neither score is negative
PlayedFromZero(score1, score2) == score1 >= 0 /\ score2 >= 0

\* a game counts as soon as one score is above zero
PlayedOneSided(score1, score2) == score1 > 0 \/ score2 > 0

\* line 128
Played(score1, score2) == score1 > 0 /\ score2 > 0

\* equal scores counted as a win of the first team
UpdateRecordsTieToFirst(stats, name1, name2, score1, score2) ==
  IF ~Played(score1, score2) THEN stats
  ELSE IF score1 >= score2 THEN Add(Add(stats, name1, "wins", 1), name2, "losses", 1)
  ELSE Add(Add(stats, name2, "wins", 1), name1, "losses", 1)

\* lines 128-143
UpdateRecords(stats, name1, name2, score1, score2) ==
  IF ~Played(score1, score2) THEN stats
  ELSE IF score1 > score2 THEN Add(Add(stats, name1, "wins", 1), name2, "losses", 1)
  ELSE IF score2 > score1 THEN Add(Add(stats, name2, "wins", 1), name1, "losses", 1)
  ELSE Add(Add(stats, name1, "ties", 1), name2, "ties", 1)

\* lines 107-144: one matchup; acc = [stats, processedGames, warnings]
ProcessMatchup(acc, weekNum, matchup) ==
  LET score1 == parseScore(matchup.team1Score)
      score2 == parseScore(matchup.team2Score)
      name1 == matchup.team1
      name2 == matchup.team2
  IN  IF SkipMatchup(acc.stats, name1, name2)
      THEN [acc EXCEPT !.warnings = @ \cup {<<weekNum, name1, name2>>}]
      ELSE [acc EXCEPT
              !.stats = UpdateRecords(
                          AccumulatePoints(acc.stats, name1, name2, score1, score2),
                          name1, name2, score1, score2),
              !.processedGames = IF Played(score1, score2) THEN @ + 1 ELSE @]

RECURSIVE ProcessMatchups(_, _, _)
ProcessMatchups(acc, weekNum, matchups) ==
  IF matchups = <<>> THEN acc
  ELSE ProcessMatchups(ProcessMatchup(acc, weekNum, Head(matchups)), weekNum, Tail(matchups))

\* lines 104-145: every week of the week map, in Object.entries order
RECURSIVE ProcessWeeks(_, _, _)
ProcessWeeks(acc, weeks, order) ==
  IF order = <<>> THEN acc
  ELSE ProcessWeeks(ProcessMatchups(acc, Head(order), weeks[Head(order)]), weeks, Tail(order))

\* lines 152-164: with no completed game, take the stats of the stored rows
RECURSIVE Fallback(_, _)
Fallback(stats, rows) ==
  IF rows = <<>> THEN stats
  ELSE LET r == Head(rows)
           s == IF r.name \in DOMAIN stats
                THEN [stats EXCEPT ![r.name] = [wins |-> r.wins, losses |-> r.losses,
                                                ties |-> r.ties, pf |-> r.pf, pa |-> r.pa]]
                ELSE stats
       IN Fallback(s, Tail(rows))

\* line 170: season.standings?.find(t => t.name === team.name) || {}
EmptyRow(name) ==
  [name |-> name, state |-> "absent", rChampion |-> "absent", prevPlace |-> Absent,
   place |-> Absent, wins |-> 0, losses |-> 0, ties |-> 0, pf |-> 0, pa |-> 0]

RECURSIVE Find(_, _)
Find(rows, name) ==
  IF rows = <<>> THEN EmptyRow(name)
  ELSE IF Head(rows).name = name THEN Head(rows) ELSE Find(Tail(rows), name)

\* { ...existingTeam, ...team }: the roster's key wins
SpreadTeamLast(teamValue, existingValue) ==
  IF teamValue = "absent" THEN existingValue ELSE teamValue

\* { ...team, ...existingTeam }: a key of the existing row wins over the roster's
Spread(teamValue, existingValue) ==
  IF existingValue = "absent" THEN teamValue ELSE existingValue

\* the computed stats added to the stored ones instead of replacing them
MergeRowAdding(team, existingTeam, st) ==
  [name |-> team.name,
   state |-> Spread(team.state, existingTeam.state),
   rChampion |-> Spread(team.rChampion, existingTeam.rChampion),
   prevPlace |-> existingTeam.prevPlace,
   place |-> existingTeam.place,
   wins |-> existingTeam.wins + st.wins, losses |-> existingTeam.losses + st.losses,
   ties |-> existingTeam.ties + st.ties, pf |-> existingTeam.pf + st.pf,
   pa |-> existingTeam.pa + st.pa]

\* lines 172-180
MergeRow(team, existingTeam, st) ==
  [name |-> team.name,
   state |-> Spread(team.state, existingTeam.state),
   rChampion |-> Spread(team.rChampion, existingTeam.rChampion),
   prevPlace |-> existingTeam.prevPlace,
   place |-> existingTeam.place,
   wins |-> st.wins, losses |-> st.losses, ties |-> st.ties, pf |-> st.pf, pa |-> st.pa]

\* lines 184-187: negative puts a first
Compare(a, b) == IF b.wins # a.wins THEN b.wins - a.wins ELSE b.pf - a.pf

\* an unstable sort: a row goes before the rows it ties with
RECURSIVE InsertUnstable(_, _)
InsertUnstable(sorted, row) ==
  IF sorted = <<>> THEN <<row>>
  ELSE IF Compare(Head(sorted), row) < 0 THEN <<Head(sorted)>> \o InsertUnstable(Tail(sorted), row)
  ELSE <<row>> \o sorted

\* Array.prototype.sort is stable: a row goes after every row it does not beat
RECURSIVE Insert(_, _)
Insert(sorted, row) ==
  IF sorted = <<>> THEN <<row>>
  ELSE IF Compare(Head(sorted), row) <= 0 THEN <<Head(sorted)>> \o Insert(Tail(sorted), row)
  ELSE <<row>> \o sorted

RECURSIVE Sort(_)
Sort(rows) == IF rows = <<>> THEN <<>> ELSE Insert(Sort(SubSeq(rows, 1, Len(rows) - 1)), rows[Len(rows)])

\* places shared by rows that tie on wins and points
AssignPlacesShared(rows) ==
  [idx \in DOMAIN rows |->
     [rows[idx] EXCEPT !.place =
        1 + Cardinality({j \in DOMAIN rows : Compare(rows[j], rows[idx]) < 0})]]

\* lines 190-192
AssignPlaces(rows) == [idx \in DOMAIN rows |-> [rows[idx] EXCEPT !.place = idx]]

\* only a season without roster or in the array format is skipped
SkipsWithoutRoster(season) ==
  \/ ~season.hasTeams
  \/ season.isArray

\* lines 73-85: the early returns
Skips(season) ==
  \/ ~season.hasTeams
  \/ season.isArray
  \/ season.weeksKind # "object"

\* the stored stats taken whenever the season has stored rows
ComputeStatsStored(season) ==
  LET acc == ProcessWeeks([stats |-> InitStats(season.teams), processedGames |-> 0,
                           warnings |-> {}],
                          season.weeks, WeekOrder(DOMAIN season.weeks))
  IN  [acc EXCEPT !.stats = IF season.hasStandings
                            THEN Fallback(acc.stats, season.standings)
                            ELSE acc.stats]

\* lines 89-164: the stats the standings are built from
ComputeStats(season) ==
  LET acc == ProcessWeeks([stats |-> InitStats(season.teams), processedGames |-> 0,
                           warnings |-> {}],
                          season.weeks, WeekOrder(DOMAIN season.weeks))
  IN  [acc EXCEPT !.stats = IF acc.processedGames = 0 /\ season.hasStandings
                            THEN Fallback(acc.stats, season.standings)
                            ELSE acc.stats]

\* the stored rows of teams that left the roster are kept after the new rows
BuildStandingsKeepPrior(season, stats) ==
  LET prior == IF season.hasStandings THEN season.standings ELSE <<>>
      InRoster(r) == \E i \in DOMAIN season.teams : season.teams[i].name = r.name
      Left(r) == ~InRoster(r)
  IN  [i \in DOMAIN season.teams |->
         MergeRow(season.teams[i], Find(prior, season.teams[i].name),
                  stats[season.teams[i].name])] \o SelectSeq(prior, Left)

\* lines 167-181
BuildStandings(season, stats) ==
  LET prior == IF season.hasStandings THEN season.standings ELSE <<>>
  IN  [i \in DOMAIN season.teams |->
         MergeRow(season.teams[i], Find(prior, season.teams[i].name),
                  stats[season.teams[i].name])]

\* the season after recalculateStandings(year)
Recalculated(season) ==
  IF Skips(season) THEN season
  ELSE [season EXCEPT
          !.hasStandings = TRUE,
          !.standings = AssignPlaces(Sort(BuildStandings(season, ComputeStats(season).stats)))]

Warnings(season) == IF Skips(season) THEN {} ELSE ComputeStats(season).warnings

\* recalculateStandings(year) on the cache; a year that is not cached returns at line 73
recalculateStandings(data, year) ==
  IF year \in DOMAIN data THEN [data EXCEPT ![year] = Recalculated(data[year])] ELSE data

\* ------------------------------------------------------------------------
\* The store: seasons as loaded from seasons.json (src/server.js:40-48)
\* ------------------------------------------------------------------------
Matchup(t1, s1, t2, s2) == [team1 |-> t1, team1Score |-> s1, team2 |-> t2, team2Score |-> s2]

Team(name) == [name |-> name, state |-> "active", rChampion |-> "false"]

Roster == [i \in DOMAIN RosterNames |-> Team(RosterNames[i])]

Row(name, state, rChampion, place, prevPlace, wins, losses, ties, pf, pa) ==
  [name |-> name, state |-> state, rChampion |-> rChampion, prevPlace |-> prevPlace,
   place |-> place, wins |-> wins, losses |-> losses, ties |-> ties, pf |-> pf, pa |-> pa]

\* the standings a season file can hold before the first recompute: rows kept
\* by the migration (they carry the old stats and may lack the roster's
\* metadata keys), or rows of another roster
StoredStandings ==
  { <<Row("B", "absent", "true", 1, 2, 2, 0, 0, 5, 1),
      Row("A", "legacy", "false", 2, 1, 1, 1, 0, 3, 3),
      Row("C", "active", "absent", 3, 3, 0, 2, 0, 1, 5)>>,
    <<Row("Z", "active", "true", 1, 1, 1, 0, 0, 2, 1),
      Row("A", "inactive", "absent", 2, Absent, 0, 1, 0, 1, 2)>> }

\* games of the first week: every pair of scores between two roster teams,
\* and games against BYE, no team, a team that is not in the roster, and a name
\* that Object.prototype defines
FirstWeekPool ==
  {Matchup("A", s1, "B", s2) : s1 \in Scores, s2 \in Scores}
    \cup {Matchup("B", Num(MaxScore), "C", Num(1)), Matchup("B", Num(1), "C", Num(MaxScore)),
          Matchup("A", NullScore, BYE, NullScore), Matchup("A", Num(MaxScore), BYE, Num(1)),
          Matchup(NullTeam, NullScore, "B", NullScore), Matchup(NullTeam, Num(1), "B", Num(MaxScore)),
          Matchup("X", Num(MaxScore), "C", Num(1)),
          Matchup("A", Num(MaxScore), "constructor", Num(1))}

\* games of a later regular week
LaterWeekPool ==
  {Matchup("A", Num(1), "B", Num(MaxScore)), Matchup("B", Num(MaxScore), "C", Num(1)),
   Matchup("A", NullScore, "B", NullScore), Matchup("C", Num(MaxScore), BYE, Num(1))}

\* games of a playoff week (src/add-playoff-weeks.js:34-44: seed against BYE)
PlayoffPool ==
  {Matchup(NullTeam, NullScore, BYE, NullScore), Matchup("A", Num(MaxScore), BYE, NullScore),
   Matchup("A", Num(MaxScore), "B", Num(1)), Matchup("C", Num(1), "B", Num(1))}

\* a further game of the same week
ExtraPool == {Matchup("C", Num(MaxScore), "B", Num(1))}

RECURSIVE SeqsUpTo(_, _)
SeqsUpTo(S, n) ==
  IF n = 0 THEN {<<>>}
  ELSE LET shorter == SeqsUpTo(S, n - 1)
       IN  shorter \cup {Append(q, x) : q \in {r \in shorter : Len(r) = n - 1}, x \in S}

WeekLists(pool) ==
  {<<>>} \cup {<<m>> \o t : m \in pool, t \in SeqsUpTo(ExtraPool, MaxMatchups - 1)}

\* the week maps of a season file
WeekMaps ==
  {[k \in WeekKeys |-> IF WeekNumber(k) >= PlayoffStart THEN p
                       ELSE IF WeekNumber(k) = 1 THEN f ELSE l] :
     f \in WeekLists(FirstWeekPool), l \in WeekLists(LaterWeekPool), p \in WeekLists(PlayoffPool)}

Season(isArray, hasTeams, weeksKind, weeks, hasStandings, standings) ==
  [isArray |-> isArray, hasTeams |-> hasTeams, teams |-> IF hasTeams THEN Roster ELSE <<>>,
   weeksKind |-> weeksKind, weeks |-> weeks,
   hasStandings |-> hasStandings, standings |-> standings]

NoWeeks == [k \in {} |-> <<>>]

EmptyWeeks == [k \in WeekKeys |-> <<>>]

\* ------------------------------------------------------------------------
\* saveData (src/server.js:58-66)
\* ------------------------------------------------------------------------
\* JSON.stringify(seasonsData): an array is written as its elements only, so a
\* weeks property added to a legacy array season is not part of the file
Serialize(data) ==
  [y \in DOMAIN data |->
     IF data[y].isArray
     THEN [data[y] EXCEPT !.weeksKind = "missing", !.weeks = NoWeeks]
     ELSE data[y]]

\* ------------------------------------------------------------------------
\* Requests and responses
\* ------------------------------------------------------------------------
\* the request being handled; again tells that it is a season read or a week
\* edit that repeats the request handled just before it
Request(op, year, weekNum, isArray, matchups) ==
  [op |-> op, year |-> year, weekNum |-> weekNum, isArray |-> isArray, matchups |-> matchups,
   again |-> /\ op \in {"getSeason", "putWeek"}
             /\ last.op = op /\ last.year = year /\ last.weekNum = weekNum
             /\ last.isArray = isArray /\ last.matchups = matchups]

NotFound(error) == [status |-> 404, body |-> [error |-> error]]

Ok(body) == [status |-> 200, body |-> body]

AllWarnings(data) == UNION {Warnings(data[y]) : y \in DOMAIN data}

\* the truthiness of seasonsData[year] (lines 210, 222, 234): an own key, or a
\* key every object inherits from Object.prototype
HasSeason(data, year) == year \in DOMAIN data \/ year \in ObjectPrototypeKeys

\* seasonsData[year] for a key that is inherited: a function object, without
\* teams, weeks or standings until a handler writes them on it
InheritedObject == Season(FALSE, FALSE, "missing", NoWeeks, FALSE, <<>>)

\* res.json of a value JSON.stringify has no text for
Undefined == [undefined |-> TRUE]

\* ------------------------------------------------------------------------
\* Routes (src/server.js:201-248)
\* ------------------------------------------------------------------------
\* GET /seasons (lines 202-205)
RECURSIVE RecalculateAll(_, _)
RecalculateAll(data, years) ==
  IF years = {} THEN data
  ELSE LET y == CHOOSE x \in years : TRUE
       IN  RecalculateAll(recalculateStandings(data, y), years \ {y})

GetSeasons ==
  /\ seasonsData' = RecalculateAll(seasonsData, DOMAIN seasonsData)
  /\ console' = AllWarnings(seasonsData)
  /\ res' = Ok([seasons |-> seasonsData'])
  /\ last' = Request("getSeasons", "", "", FALSE, <<>>)
  /\ UNCHANGED editor
  /\ UNCHANGED <<disk, saveFailures, inherited>>

\* the response built from the season as it was before the recompute
GetSeasonStale(year) ==
  /\ last' = Request("getSeason", year, "", FALSE, <<>>)
  /\ UNCHANGED editor
  /\ UNCHANGED <<disk, saveFailures, inherited>>
  /\ IF ~HasSeason(seasonsData, year)
     THEN /\ res' = NotFound("Year not found")
          /\ UNCHANGED <<seasonsData, console>>
     ELSE IF year \notin DOMAIN seasonsData
     THEN /\ res' = Ok(Undefined)
          /\ console' = {}
          /\ UNCHANGED seasonsData
     ELSE /\ seasonsData' = recalculateStandings(seasonsData, year)
          /\ console' = Warnings(seasonsData[year])
          /\ res' = Ok([season |-> [seasonsData'[year] EXCEPT
                                      !.hasStandings = seasonsData[year].hasStandings,
                                      !.standings = seasonsData[year].standings]])

\* GET /seasons/:year (lines 208-213)
GetSeason(year) ==
  /\ last' = Request("getSeason", year, "", FALSE, <<>>)
  /\ UNCHANGED editor
  /\ UNCHANGED <<disk, saveFailures, inherited>>
  /\ IF ~HasSeason(seasonsData, year)
     THEN /\ res' = NotFound("Year not found")
          /\ UNCHANGED <<seasonsData, console>>
     ELSE IF year \notin DOMAIN seasonsData
     THEN /\ res' = Ok(Undefined)
          /\ console' = {}
          /\ UNCHANGED seasonsData
     ELSE /\ seasonsData' = recalculateStandings(seasonsData, year)
          /\ console' = Warnings(seasonsData[year])
          /\ res' = Ok([season |-> seasonsData'[year]])

\* GET /api/seasons/:year/weeks (lines 219-227)
GetWeeks(year) ==
  /\ last' = Request("getWeeks", year, "", FALSE, <<>>)
  /\ UNCHANGED editor
  /\ UNCHANGED <<seasonsData, disk, console, saveFailures, inherited>>
  /\ IF ~HasSeason(seasonsData, year)
     THEN res' = NotFound("Season not found")
     ELSE LET season == IF year \in DOMAIN seasonsData THEN seasonsData[year] ELSE inherited
          IN  res' = Ok([weeks |-> IF season.weeksKind = "missing" THEN NoWeeks ELSE season.weeks,
                         teams |-> season.teams])

\* the submitted matchups merged into the week instead of replacing it
ApplyEditAppend(season, weekNum, matchups) ==
  LET weeks == IF season.weeksKind = "missing" THEN NoWeeks ELSE season.weeks
  IN  [season EXCEPT
         !.weeksKind = IF @ = "missing" THEN "object" ELSE @,
         !.weeks = [k \in DOMAIN weeks \cup {weekNum} |->
                      IF k # weekNum THEN weeks[k]
                      ELSE IF k \in DOMAIN weeks THEN weeks[k] \o matchups ELSE matchups]]

\* the week map rebuilt from the submitted week alone
ApplyEditReset(season, weekNum, matchups) ==
  [season EXCEPT
     !.weeksKind = IF @ = "missing" THEN "object" ELSE @,
     !.weeks = [k \in {weekNum} |-> matchups]]

\* lines 237-239: create the weeks object when the season has none, then
\* replace the week
ApplyEdit(season, weekNum, matchups) ==
  LET weeks == IF season.weeksKind = "missing" THEN NoWeeks ELSE season.weeks
  IN  [season EXCEPT
         !.weeksKind = IF @ = "missing" THEN "object" ELSE @,
         !.weeks = [k \in DOMAIN weeks \cup {weekNum} |->
                      IF k = weekNum THEN matchups ELSE weeks[k]]]

\* the standings recomputed before the submitted week is stored
PutWeekRecomputeFirst(year, weekNum, isArray, matchups, saved) ==
  /\ saved \/ saveFailures < MaxSaveFailures
  /\ last' = Request("putWeek", year, weekNum, isArray, matchups)
  /\ UNCHANGED editor
  /\ IF ~HasSeason(seasonsData, year)
     THEN /\ res' = NotFound("Not found")
          /\ UNCHANGED <<seasonsData, disk, console, saveFailures, inherited>>
     ELSE IF ~isArray
     THEN /\ res' = [status |-> 400, body |-> [error |-> "Invalid data"]]
          /\ UNCHANGED <<seasonsData, disk, console, saveFailures, inherited>>
     ELSE IF year \notin DOMAIN seasonsData
     THEN /\ inherited' = ApplyEdit(inherited, weekNum, matchups)
          /\ console' = {}
          /\ UNCHANGED seasonsData
          /\ IF saved
             THEN /\ disk' = Serialize(seasonsData)
                  /\ UNCHANGED saveFailures
                  /\ res' = Ok([success |-> TRUE, standings |-> <<>>])
             ELSE /\ UNCHANGED disk
                  /\ saveFailures' = saveFailures + 1
                  /\ res' = [status |-> 500, body |-> [error |-> "Save failed"]]
     ELSE LET edited == [recalculateStandings(seasonsData, year) EXCEPT
                           ![year] = ApplyEdit(@, weekNum, matchups)]
          IN  /\ seasonsData' = edited
              /\ console' = Warnings(seasonsData[year])
              /\ UNCHANGED inherited
              /\ IF saved
                 THEN /\ disk' = Serialize(seasonsData')
                      /\ UNCHANGED saveFailures
                      /\ res' = Ok([success |-> TRUE,
                                    standings |-> IF seasonsData'[year].hasStandings
                                                  THEN seasonsData'[year].standings ELSE <<>>])
                 ELSE /\ UNCHANGED disk
                      /\ saveFailures' = saveFailures + 1
                      /\ res' = [status |-> 500, body |-> [error |-> "Save failed"]]

\* PUT /api/seasons/:year/weeks/:weekNum (lines 230-248); saved tells whether
\* fs.writeFileSync succeeded
PutWeek(year, weekNum, isArray, matchups, saved) ==
  /\ saved \/ saveFailures < MaxSaveFailures
  /\ last' = Request("putWeek", year, weekNum, isArray, matchups)
  /\ UNCHANGED editor
  /\ IF ~HasSeason(seasonsData, year)
     THEN /\ res' = NotFound("Not found")
          /\ UNCHANGED <<seasonsData, disk, console, saveFailures, inherited>>
     ELSE IF ~isArray
     THEN /\ res' = [status |-> 400, body |-> [error |-> "Invalid data"]]
          /\ UNCHANGED <<seasonsData, disk, console, saveFailures, inherited>>
     ELSE IF year \notin DOMAIN seasonsData
     THEN /\ inherited' = ApplyEdit(inherited, weekNum, matchups)
          /\ console' = {}
          /\ UNCHANGED seasonsData
          /\ IF saved
             THEN /\ disk' = Serialize(seasonsData)
                  /\ UNCHANGED saveFailures
                  /\ res' = Ok([success |-> TRUE, standings |-> <<>>])
             ELSE /\ UNCHANGED disk
                  /\ saveFailures' = saveFailures + 1
                  /\ res' = [status |-> 500, body |-> [error |-> "Save failed"]]
     ELSE LET edited == [seasonsData EXCEPT ![year] = ApplyEdit(@, weekNum, matchups)]
          IN  /\ seasonsData' = recalculateStandings(edited, year)
              /\ console' = Warnings(edited[year])
              /\ UNCHANGED inherited
              /\ IF saved
                 THEN /\ disk' = Serialize(seasonsData')
                      /\ UNCHANGED saveFailures
                      /\ res' = Ok([success |-> TRUE,
                                    standings |-> IF seasonsData'[year].hasStandings
                                                  THEN seasonsData'[year].standings ELSE <<>>])
                 ELSE /\ UNCHANGED disk
                      /\ saveFailures' = saveFailures + 1
                      /\ res' = [status |-> 500, body |-> [error |-> "Save failed"]]

\* ------------------------------------------------------------------------
\* SeasonTable (src/unnamed/part_005:601-660)
\* ------------------------------------------------------------------------
\* preparedData, lines 636-638: the rank change shown for a row
change(row) ==
  IF row.prevPlace # Absent /\ row.place # Absent THEN row.prevPlace - row.place ELSE 0

\* ------------------------------------------------------------------------
\* EditSeasonPage (src/unnamed/part_005:13-460)
\* ------------------------------------------------------------------------
\* lines 19-20: useState({}) and useState([])
EditorClosed == [weeks |-> NoWeeks, teams |-> <<>>]

\* the value of the option "Select team..."
NoSelection == ""

\* a team reference that JavaScript takes as true
Truthy(team) == team \notin {NullTeam, NoSelection}

\* the other side of the same matchup is offered again
getAvailableTeamsOtherMatchups(weeks, teams, weekNum, currentMatchupIndex, currentField) ==
  IF weekNum \notin DOMAIN weeks THEN teams
  ELSE LET matchups == weeks[weekNum]
           currentValue == matchups[currentMatchupIndex][currentField]
           assignedTeams ==
             UNION {{matchups[idx][f] : f \in {"team1", "team2"}} \cap {t \in {matchups[idx].team1, matchups[idx].team2} : Truthy(t)} :
                      idx \in DOMAIN matchups \ {currentMatchupIndex}}
           Offered(team) == team.name \notin assignedTeams \/ team.name = currentValue
       IN  SelectSeq(teams, Offered)

\* lines 143-171: the teams offered for a slot of a week
getAvailableTeams(weeks, teams, weekNum, currentMatchupIndex, currentField) ==
  IF weekNum \notin DOMAIN weeks THEN teams
  ELSE LET matchups == weeks[weekNum]
           currentValue == matchups[currentMatchupIndex][currentField]
           otherField == IF currentField = "team1" THEN "team2" ELSE "team1"
           assignedTeams ==
             {t \in {matchups[currentMatchupIndex][otherField]} : Truthy(t)}
               \cup UNION {{t \in {matchups[idx].team1, matchups[idx].team2} : Truthy(t)} :
                             idx \in DOMAIN matchups \ {currentMatchupIndex}}
           Offered(team) == team.name \notin assignedTeams \/ team.name = currentValue
       IN  SelectSeq(teams, Offered)

\* lines 100-116
updateMatchupTeam(weeks, weekNum, matchupIndex, field, value) ==
  IF weekNum \notin DOMAIN weeks THEN weeks
  ELSE [weeks EXCEPT ![weekNum][matchupIndex][field] = value]

\* lines 176-194
addMatchup(weeks, weekNum) ==
  IF weekNum \notin DOMAIN weeks THEN weeks
  ELSE [weeks EXCEPT ![weekNum] = Append(@, Matchup(NullTeam, NullScore, NullTeam, NullScore))]

\* lines 199-210
removeMatchup(weeks, weekNum, matchupIndex) ==
  IF weekNum \notin DOMAIN weeks THEN weeks
  ELSE [weeks EXCEPT ![weekNum] =
          [i \in 1..(Len(@) - 1) |-> IF i < matchupIndex THEN @[i] ELSE @[i + 1]]]

\* lines 265-268
PlayoffEnd == 17

isPlayoffWeek(weekNum) == WeekNumber(weekNum) >= PlayoffStart /\ WeekNumber(weekNum) <= PlayoffEnd

\* lines 309-336: the values the dropdown of a slot can send; a BYE is shown
\* as text, without dropdown
Options(weeks, teams, weekNum, matchupIndex, field) ==
  IF weeks[weekNum][matchupIndex][field] = BYE THEN {}
  ELSE {NoSelection} \cup
       {getAvailableTeams(weeks, teams, weekNum, matchupIndex, field)[i].name :
          i \in DOMAIN getAvailableTeams(weeks, teams, weekNum, matchupIndex, field)}

\* ------------------------------------------------------------------------
\* Specification of the server
\* ------------------------------------------------------------------------
\* the season being edited, and a year that is not in the store
EditYears == {"2024", "2030"}

\* the years the requests name: those, and a key that seasonsData inherits
RequestYears == EditYears \cup ObjectPrototypeKeys

EditWeeks == {"1", "15"}

\* the week edits the editor submits
EditPool == {Matchup("A", Num(MaxScore), "B", Num(1)), Matchup("A", NullScore, BYE, NullScore)}

EditLists == {<<m>> : m \in EditPool}

\* the edit during which the file cannot be written
FailedEdit == <<Matchup("A", Num(MaxScore), "B", Num(1))>>

\* the shapes the edited season can have in seasons.json: migrated (without or
\* with stored standings), a legacy array, without roster, without weeks,
\* with an array for weeks
EditedSeasons ==
  {Season(FALSE, TRUE, "object", EmptyWeeks, FALSE, <<>>),
   Season(FALSE, TRUE, "object", EmptyWeeks, TRUE, CHOOSE s \in StoredStandings : s[1].name = "B"),
   Season(TRUE, FALSE, "missing", NoWeeks, FALSE, <<>>),
   Season(FALSE, FALSE, "object", EmptyWeeks, FALSE, <<>>),
   Season(FALSE, TRUE, "missing", NoWeeks, TRUE, CHOOSE s \in StoredStandings : s[1].name = "B"),
   Season(FALSE, TRUE, "array", NoWeeks, FALSE, <<>>)}

\* another season of the store, which no request edits
OtherSeason ==
  Season(FALSE, TRUE, "object",
         [k \in WeekKeys |-> IF k = "1" THEN <<Matchup("B", Num(MaxScore), "C", Num(1))>> ELSE <<>>],
         TRUE, CHOOSE s \in StoredStandings : s[1].name = "Z")

Init ==
  /\ seasonsData \in {[y \in {"2024", "2019"} |-> IF y = "2024" THEN c ELSE OtherSeason] :
                        c \in EditedSeasons}
  /\ disk = seasonsData
  /\ last = [op |-> "load", year |-> "", weekNum |-> "", isArray |-> FALSE, matchups |-> <<>>,
             again |-> FALSE]
  /\ res = Ok([loaded |-> TRUE])
  /\ console = {}
  /\ saveFailures = 0
  /\ inherited = InheritedObject
  /\ editor = EditorClosed

Next ==
  \/ GetSeasons
  \/ \E year \in RequestYears : GetSeason(year)
  \/ \E year \in RequestYears : GetWeeks(year)
  \/ \E weekNum \in EditWeeks, matchups \in EditLists :
       PutWeek("2024", weekNum, TRUE, matchups, TRUE)
  \/ PutWeek("2024", "1", TRUE, FailedEdit, FALSE)
  \/ \E year \in RequestYears \ {"2024"} : PutWeek(year, "1", TRUE, FailedEdit, TRUE)
  \/ \E year \in EditYears : PutWeek(year, "1", FALSE, <<>>, TRUE)

Spec == Init /\ [][Next]_vars

\* ------------------------------------------------------------------------
\* Specification of recompute on stored seasons: any season file of the
\* bounded shape is loaded and read
\* ------------------------------------------------------------------------
\* what a season file holds under standings: nothing, or stored rows
StoredOptions == {<<FALSE, <<>>>>} \cup {<<TRUE, s>> : s \in StoredStandings}

InitStored ==
  /\ \E w \in WeekMaps, st \in StoredOptions :
       seasonsData = [y \in {"2024"} |-> Season(FALSE, TRUE, "object", w, st[1], st[2])]
  /\ disk = seasonsData
  /\ last = [op |-> "load", year |-> "", weekNum |-> "", isArray |-> FALSE, matchups |-> <<>>,
             again |-> FALSE]
  /\ res = Ok([loaded |-> TRUE])
  /\ console = {}
  /\ saveFailures = 0
  /\ inherited = InheritedObject
  /\ editor = EditorClosed

NextRead == \E year \in {"2024"} : GetSeason(year)

SpecRecalc == InitStored /\ [][NextRead]_vars

\* ------------------------------------------------------------------------
\* Specification of recompute on weeks with several matchups and with a key
\* that is not a number
\* ------------------------------------------------------------------------
\* games of a week with two matchups: a team can be in both of them, and on
\* both sides of one
PairPool ==
  {Matchup("A", Num(MaxScore), "B", Num(1)), Matchup("A", Num(1), "C", Num(MaxScore)),
   Matchup("B", Num(1), "C", Num(1)), Matchup("A", Num(MaxScore), "A", Num(1))}

PairLists == {<<m, n>> : m \in PairPool, n \in PairPool}

SecondWeekLists == {<<>>, <<Matchup("B", Num(MaxScore), "C", Num(1))>>,
                    <<Matchup("C", Num(1), "A", Num(MaxScore))>>}

FinalWeekLists == {<<>>, <<Matchup("C", Num(MaxScore), "B", Num(1))>>}

KeyedWeekMaps ==
  {[k \in {"1", "2", FinalKey} |-> IF k = "1" THEN p ELSE IF k = "2" THEN l ELSE f] :
     p \in PairLists, l \in SecondWeekLists, f \in FinalWeekLists}

InitWeeks ==
  /\ \E w \in KeyedWeekMaps :
       seasonsData = [y \in {"2024"} |-> Season(FALSE, TRUE, "object", w, FALSE, <<>>)]
  /\ disk = seasonsData
  /\ last = [op |-> "load", year |-> "", weekNum |-> "", isArray |-> FALSE, matchups |-> <<>>,
             again |-> FALSE]
  /\ res = Ok([loaded |-> TRUE])
  /\ console = {}
  /\ saveFailures = 0
  /\ inherited = InheritedObject
  /\ editor = EditorClosed

NextWeeks ==
  \/ GetSeason("2024")
  \/ PutWeek("2024", FinalKey, TRUE, FailedEdit, TRUE)

SpecWeeks == InitWeeks /\ [][NextWeeks]_vars

\* ------------------------------------------------------------------------
\* Specification of the season editor
\* ------------------------------------------------------------------------
serverVars == <<seasonsData, disk, last, res, console, saveFailures, inherited>>

\* the weeks the editor is loaded with (lines 65-84): a regular week and a
\* playoff week with a bye, no team in two slots of a week
LoadedWeeks ==
  {[k \in {"1", "15"} |-> IF k = "1" THEN r ELSE p] :
     r \in {<<>>, <<Matchup("A", NullScore, "B", NullScore)>>,
            <<Matchup("C", NullScore, NullTeam, NullScore)>>},
     p \in {<<Matchup("A", NullScore, BYE, NullScore)>>,
            <<Matchup(NullTeam, NullScore, BYE, NullScore)>>}}

InitEditor ==
  /\ seasonsData = [y \in {"2024"} |-> Season(FALSE, TRUE, "object", EmptyWeeks, FALSE, <<>>)]
  /\ disk = seasonsData
  /\ last = [op |-> "load", year |-> "", weekNum |-> "", isArray |-> FALSE, matchups |-> <<>>,
             again |-> FALSE]
  /\ res = Ok([loaded |-> TRUE])
  /\ console = {}
  /\ saveFailures = 0
  /\ inherited = InheritedObject
  /\ \E w \in LoadedWeeks : editor = [weeks |-> w, teams |-> Roster]

\* the onChange of the dropdown of a slot (lines 325-326)
SelectTeam(weekNum, matchupIndex, field, value) ==
  /\ weekNum \in DOMAIN editor.weeks
  /\ matchupIndex \in DOMAIN editor.weeks[weekNum]
  /\ value \in Options(editor.weeks, editor.teams, weekNum, matchupIndex, field)
  /\ editor' = [editor EXCEPT
                  !.weeks = updateMatchupTeam(@, weekNum, matchupIndex, field, value)]
  /\ UNCHANGED serverVars

\* the button "+ Add Matchup", shown for regular weeks (lines 541-547)
AddMatchup(weekNum) ==
  /\ weekNum \in DOMAIN editor.weeks
  /\ ~isPlayoffWeek(weekNum)
  /\ Len(editor.weeks[weekNum]) <= MaxMatchups
  /\ editor' = [editor EXCEPT !.weeks = addMatchup(@, weekNum)]
  /\ UNCHANGED serverVars

\* the delete button of a matchup, shown for regular weeks (lines 427-434)
RemoveMatchup(weekNum, matchupIndex) ==
  /\ weekNum \in DOMAIN editor.weeks
  /\ ~isPlayoffWeek(weekNum)
  /\ matchupIndex \in DOMAIN editor.weeks[weekNum]
  /\ editor' = [editor EXCEPT !.weeks = removeMatchup(@, weekNum, matchupIndex)]
  /\ UNCHANGED serverVars

NextEditor ==
  \/ \E weekNum \in {"1", "15"}, matchupIndex \in 1..(MaxMatchups + 1),
         field \in {"team1", "team2"},
         value \in {NoSelection} \cup {RosterNames[i] : i \in DOMAIN RosterNames} :
       SelectTeam(weekNum, matchupIndex, field, value)
  \/ \E weekNum \in {"1", "15"} : AddMatchup(weekNum)
  \/ \E weekNum \in {"1", "15"}, matchupIndex \in 1..(MaxMatchups + 1) :
       RemoveMatchup(weekNum, matchupIndex)

SpecEditor == InitEditor /\ [][NextEditor]_vars

\* ------------------------------------------------------------------------
\* Properties
\* ------------------------------------------------------------------------
\* the request just handled ran recalculateStandings(year) past its early returns
Recomputed(year) ==
  /\ year \in DOMAIN seasonsData
  /\ ~Skips(seasonsData[year])
  /\ \/ last.op = "getSeasons"
     \/ last.op = "getSeason" /\ last.year = year
     \/ last.op = "putWeek" /\ last.year = year /\ last.isArray

AllMatchups(season) == UNION {{season.weeks[k][i] : i \in DOMAIN season.weeks[k]} : k \in DOMAIN season.weeks}

RowOf(season, name) == CHOOSE r \in {season.standings[i] : i \in DOMAIN season.standings} : r.name = name

RosterSet(season) == {season.teams[i].name : i \in DOMAIN season.teams}

Decided(m) == Played(parseScore(m.team1Score), parseScore(m.team2Score))

\* C1: after recompute the places of the standings rows are exactly 1..N for a
\* roster of N teams, one row per place, also when teams tie on wins and points
RankDensity ==
  \A y \in DOMAIN seasonsData :
    Recomputed(y) =>
      LET rows == seasonsData[y].standings
          N == Len(seasonsData[y].teams)
      IN  /\ Len(rows) = N
          /\ {rows[i].place : i \in DOMAIN rows} = 1..N

RankDensityWitness ==
  \E y \in DOMAIN seasonsData :
    /\ Recomputed(y)
    /\ \E i, j \in DOMAIN seasonsData[y].standings :
         LET a == seasonsData[y].standings[i]
             b == seasonsData[y].standings[j]
         IN  i # j /\ a.wins = b.wins /\ a.pf = b.pf /\ a.wins > 0 /\ a.place # b.place

\* the games of the regular weeks in which the team appears with both scores present
RegularGames(season, name) ==
  {<<k, i>> \in UNION {{<<w, j>> : j \in DOMAIN season.weeks[w]} : w \in DOMAIN season.weeks} :
     /\ WeekNumber(k) < PlayoffStart
     /\ name \in {season.weeks[k][i].team1, season.weeks[k][i].team2}
     /\ season.weeks[k][i].team1Score # NullScore
     /\ season.weeks[k][i].team2Score # NullScore}

\* C2: for every roster team wins + losses + ties is the number of regular-week
\* matchups (weeks below PlayoffStart) in which the team appears with both
\* scores present; playoff weeks and matchups with a missing score add nothing
Conservation ==
  \A y \in DOMAIN seasonsData :
    Recomputed(y) =>
      \A name \in RosterSet(seasonsData[y]) :
        LET r == RowOf(seasonsData[y], name)
        IN  r.wins + r.losses + r.ties = Cardinality(RegularGames(seasonsData[y], name))

\* C3: recompute is idempotent: a further recalculateStandings on the season a
\* recompute has produced leaves the season, its rows and their order unchanged
RecomputeIdempotent ==
  \A y \in DOMAIN seasonsData :
    Recomputed(y) => Recalculated(seasonsData[y]) = seasonsData[y]

RecomputeIdempotentWitness ==
  \E y \in DOMAIN seasonsData :
    /\ Recomputed(y)
    /\ last.op = "getSeason" /\ last.again
    /\ \E m \in AllMatchups(seasonsData[y]) : Decided(m) /\ m.team1 = "A" /\ m.team2 = "B"
    /\ \E i \in DOMAIN seasonsData[y].standings : seasonsData[y].standings[i].wins > 0

RosterIndex(season, name) == CHOOSE i \in DOMAIN season.teams : season.teams[i].name = name

\* C5: the rows are ordered by wins descending, then points-for descending, and
\* rows equal on both keep the roster order; the i-th row has place i
StandingsOrder ==
  \A y \in DOMAIN seasonsData :
    Recomputed(y) =>
      LET rows == seasonsData[y].standings
      IN  /\ \A i \in DOMAIN rows : rows[i].place = i
          /\ \A i, j \in DOMAIN rows :
               i < j =>
                 \/ rows[i].wins > rows[j].wins
                 \/ rows[i].wins = rows[j].wins /\ rows[i].pf > rows[j].pf
                 \/ /\ rows[i].wins = rows[j].wins /\ rows[i].pf = rows[j].pf
                    /\ RosterIndex(seasonsData[y], rows[i].name)
                         < RosterIndex(seasonsData[y], rows[j].name)

\* a team later in the roster is placed first on wins, two teams tie on wins and
\* are split by points, and two teams tie on both
StandingsOrderWitness ==
  \E y \in DOMAIN seasonsData :
    /\ Recomputed(y)
    /\ LET rows == seasonsData[y].standings
       IN  /\ rows[1].name = "B" /\ rows[1].wins > rows[2].wins
           /\ rows[2].wins = rows[3].wins /\ rows[2].pf = rows[3].pf
           /\ rows[2].name = "A"

\* the season without the matchups that Drop selects
DropMatchups(season, Drop(_)) ==
  [season EXCEPT !.weeks = [k \in DOMAIN @ |-> SelectSeq(@[k], LAMBDA m : ~Drop(m))]]

\* every team's wins, losses and ties
Records(season) ==
  [name \in RosterSet(season) |->
     <<RowOf(season, name).wins, RowOf(season, name).losses, RowOf(season, name).ties>>]

HasNullScore(m) == m.team1Score = NullScore \/ m.team2Score = NullScore

BothScoresNull(m) == m.team1Score = NullScore /\ m.team2Score = NullScore

ByeSide(m) == m.team1 \in {BYE, NullTeam} \/ m.team2 \in {BYE, NullTeam}

\* C7: a matchup with BYE or no team on one side adds nothing to the team on the
\* other side, whatever its scores: the standings are those of the season
\* without such matchups
ByeNeutrality ==
  \A y \in DOMAIN seasonsData :
    Recomputed(y) =>
      Recalculated(DropMatchups(seasonsData[y], ByeSide)).standings = seasonsData[y].standings

ByeNeutralityWitness ==
  \E y \in DOMAIN seasonsData :
    /\ Recomputed(y)
    /\ \E m \in AllMatchups(seasonsData[y]) : m.team1 = "C" /\ m.team2 = BYE /\ Decided(m)
    /\ \E m \in AllMatchups(seasonsData[y]) : m.team1 = NullTeam /\ m.team2 = "B" /\ Decided(m)
    /\ RowOf(seasonsData[y], "C").pf = 0 /\ RowOf(seasonsData[y], "C").wins = 0
    /\ RowOf(seasonsData[y], "B").pf = 0 /\ RowOf(seasonsData[y], "B").wins = 0

\* C8: a matchup that names a team absent from the roster is skipped: it changes
\* no team's stats, the standings still hold a row per roster team, and a
\* warning is logged for it
UnknownTeamSkipped ==
  \A y \in DOMAIN seasonsData :
    Recomputed(y) =>
      LET season == seasonsData[y]
          Unknown(m) == m.team1 \notin RosterSet(season) \/ m.team2 \notin RosterSet(season)
      IN  /\ Recalculated(DropMatchups(season, Unknown)).standings = season.standings
          /\ Len(season.standings) = Len(season.teams)
          /\ \A k \in DOMAIN season.weeks : \A i \in DOMAIN season.weeks[k] :
               Unknown(season.weeks[k][i]) =>
                 <<k, season.weeks[k][i].team1, season.weeks[k][i].team2>> \in console

\* the regular weeks that hold a completed game of two roster teams
ScoredRegularWeeks(season) ==
  {k \in DOMAIN season.weeks :
     /\ WeekNumber(k) < PlayoffStart
     /\ \E i \in DOMAIN season.weeks[k] :
          /\ {season.weeks[k][i].team1, season.weeks[k][i].team2} \subseteq RosterSet(season)
          /\ Decided(season.weeks[k][i])}

\* the standings computed from the scored regular weeks except the last one
CheckpointStandings(season) ==
  LET scored == ScoredRegularWeeks(season)
      final == CHOOSE k \in scored : \A j \in scored : WeekNumber(j) <= WeekNumber(k)
  IN  Recalculated([season EXCEPT
                      !.weeks = [k \in DOMAIN @ |-> IF k \in scored \ {final} THEN @[k] ELSE <<>>],
                      !.hasStandings = FALSE, !.standings = <<>>])

\* C9: with at least two scored regular weeks, every row's previous place is
\* the place the team has in the standings of all scored regular weeks but the last
PreviousRankCheckpoint ==
  \A y \in DOMAIN seasonsData :
    (Recomputed(y) /\ Cardinality(ScoredRegularWeeks(seasonsData[y])) >= 2) =>
      \A i \in DOMAIN seasonsData[y].standings :
        seasonsData[y].standings[i].prevPlace
          = RowOf(CheckpointStandings(seasonsData[y]), seasonsData[y].standings[i].name).place

PriorRow(season, name) == IF season.hasStandings THEN Find(season.standings, name) ELSE EmptyRow(name)

HadRow(season, name) ==
  season.hasStandings /\ \E i \in DOMAIN season.standings : season.standings[i].name = name

\* C10 as stated: after recompute the metadata of a row (state, rChampion) is
\* that of the prior row of the team when one existed, the roster's otherwise
MetadataFromPriorRow ==
  [][\A y \in DOMAIN seasonsData :
       (y \in DOMAIN seasonsData' /\ Recomputed(y)') =>
         \A i \in DOMAIN seasonsData[y].teams :
           LET team == seasonsData[y].teams[i]
               prior == PriorRow(seasonsData[y], team.name)
               row == RowOf(seasonsData'[y], team.name)
           IN  IF HadRow(seasonsData[y], team.name)
               THEN row.state = prior.state /\ row.rChampion = prior.rChampion
               ELSE row.state = team.state /\ row.rChampion = team.rChampion]_vars

\* C10 as amended: each metadata field of a row is the prior row's value when a
\* prior row existed and carried that field, the roster entry's value otherwise
MetadataCarried ==
  [][\A y \in DOMAIN seasonsData :
       (y \in DOMAIN seasonsData' /\ Recomputed(y)') =>
         \A i \in DOMAIN seasonsData[y].teams :
           LET team == seasonsData[y].teams[i]
               prior == PriorRow(seasonsData[y], team.name)
               row == RowOf(seasonsData'[y], team.name)
           IN  /\ row.state = IF prior.state # "absent" THEN prior.state ELSE team.state
               /\ row.rChampion = IF prior.rChampion # "absent" THEN prior.rChampion
                                  ELSE team.rChampion]_vars

\* a recomputed row that keeps the stored championship flag against the
\* roster's, next to one that takes the roster's state for want of a stored one
MetadataCarriedWitness ==
  \E y \in DOMAIN seasonsData :
    /\ Recomputed(y)
    /\ RowOf(seasonsData[y], "B").rChampion = "true"
    /\ RowOf(seasonsData[y], "B").state = "active"
    /\ RowOf(seasonsData[y], "A").state = "legacy"
    /\ \E m \in AllMatchups(seasonsData[y]) : Decided(m) /\ m.team1 = "A" /\ m.team2 = "B"

\* C4: a week edit that repeats the edit submitted just before it (same year,
\* week and matchups) leaves the standings as the first submission made them,
\* and a successful response carries the same standings both times
ResubmitSameStandings ==
  [][(/\ last'.op = "putWeek" /\ last'.again /\ last'.isArray
      /\ last'.year \in DOMAIN seasonsData)
       => /\ seasonsData'[last'.year].hasStandings = seasonsData[last'.year].hasStandings
          /\ seasonsData'[last'.year].standings = seasonsData[last'.year].standings
          /\ seasonsData'[last'.year].weeks = seasonsData[last'.year].weeks
          /\ (res.status = 200 /\ res'.status = 200) => res'.body = res.body]_vars

\* the second of two identical edits that hold a completed game has been
\* answered, and the winner has one win
ResubmitSameStandingsWitness ==
  /\ last.op = "putWeek" /\ last.again /\ last.isArray /\ last.year = "2024"
  /\ res.status = 200
  /\ Recomputed("2024")
  /\ \E i \in DOMAIN last.matchups : Decided(last.matchups[i]) /\ last.matchups[i].team1 = "A"
  /\ RowOf(seasonsData["2024"], "A").wins = 1
  /\ res.body.standings = seasonsData["2024"].standings

\* the request just handled is a week edit that was answered with success
EditSucceeded == last.op = "putWeek" /\ res.status = 200

\* C11: a successful week edit makes the week's matchup list exactly the
\* submitted list, and leaves the other weeks of the season and the teams and
\* weeks of every other season unchanged
EditReplacesWeek ==
  [][(EditSucceeded' /\ last'.year \in DOMAIN seasonsData) =>
       LET y == last'.year
           before == IF seasonsData[y].weeksKind = "missing" THEN NoWeeks
                     ELSE seasonsData[y].weeks
       IN  /\ seasonsData'[y].weeks[last'.weekNum] = last'.matchups
           /\ DOMAIN seasonsData'[y].weeks = DOMAIN before \cup {last'.weekNum}
           /\ \A k \in DOMAIN before \ {last'.weekNum} : seasonsData'[y].weeks[k] = before[k]
           /\ seasonsData'[y].teams = seasonsData[y].teams
           /\ \A o \in DOMAIN seasonsData \ {y} :
                /\ seasonsData'[o].teams = seasonsData[o].teams
                /\ seasonsData'[o].weeks = seasonsData[o].weeks
                /\ seasonsData'[o].weeksKind = seasonsData[o].weeksKind]_vars

\* week 15 has been replaced by a submitted list while week 1 holds an earlier
\* edit and the other season holds its game
EditReplacesWeekWitness ==
  /\ EditSucceeded /\ last.year = "2024" /\ last.weekNum = "15"
  /\ seasonsData["2024"].weeks["15"] = last.matchups
  /\ last.matchups # <<>>
  /\ "1" \in DOMAIN seasonsData["2024"].weeks
  /\ seasonsData["2024"].weeks["1"] # <<>>
  /\ seasonsData["2024"].weeks["1"] # last.matchups
  /\ seasonsData["2019"].weeks["1"] # <<>>

\* C12: a week edit whose matchups are not an array, or whose season lacks its
\* team roster, is answered with a validation error and leaves the season's
\* weeks, its standings and the persisted file as they were
MalformedRejected ==
  [][(/\ last'.op = "putWeek"
      /\ last'.year \in DOMAIN seasonsData
      /\ (~last'.isArray \/ ~seasonsData[last'.year].hasTeams))
       => /\ res'.status = 400
          /\ seasonsData'[last'.year] = seasonsData[last'.year]
          /\ disk' = disk]_vars

\* C13: reading the season, reading its weeks and submitting a week edit for a
\* year that is not in the store all answer not-found, and change neither the
\* cache nor the file: no season is created
MissingYearNotFound ==
  [][(/\ last'.op \in {"getSeason", "getWeeks", "putWeek"}
      /\ last'.year \notin DOMAIN seasonsData)
       => /\ res'.status = 404
          /\ seasonsData' = seasonsData
          /\ disk' = disk]_vars

\* C14: a week edit is atomic for the caller: when the write of the file fails
\* the caller gets a failure and the cached season is as it was before the
\* edit; when it succeeds the new week and the new standings are in the cache
\* and in the file
EditAtomic ==
  [][(last'.op = "putWeek" /\ last'.isArray /\ last'.year \in DOMAIN seasonsData)
       => LET y == last'.year
          IN  /\ res'.status \in {200, 500}
              /\ res'.status = 500 => (seasonsData'[y] = seasonsData[y] /\ disk' = disk)
              /\ res'.status = 200 =>
                   /\ seasonsData'[y].weeks[last'.weekNum] = last'.matchups
                   /\ disk'[y] = seasonsData'[y]]_vars

\* the season holds the matchup list under the week
HoldsWeek(season, weekNum, matchups) ==
  /\ season.weeksKind # "missing"
  /\ weekNum \in DOMAIN season.weeks
  /\ season.weeks[weekNum] = matchups

\* C15: week edits to one season are serialized and no accepted edit is lost:
\* after two accepted edits, in either order, the cached and the persisted
\* season hold both weeks when the weeks differ and the later list when they
\* are the same week
NoLostEdit ==
  [][(/\ EditSucceeded /\ EditSucceeded'
      /\ last.year = last'.year /\ last'.year \in DOMAIN seasonsData)
       => LET y == last'.year
          IN  /\ HoldsWeek(seasonsData'[y], last'.weekNum, last'.matchups)
              /\ HoldsWeek(disk'[y], last'.weekNum, last'.matchups)
              /\ last.weekNum # last'.weekNum =>
                   /\ HoldsWeek(seasonsData'[y], last.weekNum, last.matchups)
                   /\ HoldsWeek(disk'[y], last.weekNum, last.matchups)]_vars

\* the request just handled is a read of a stored season
SeasonRead(year) ==
  last.op = "getSeason" /\ last.year = year /\ year \in DOMAIN seasonsData /\ res.status = 200

\* C16: a read of a season among week edits returns the season as it is before
\* or after an edit, never a torn one: the response is the cached season, and
\* its standings are the ones recomputed from the weeks of the same response
ReadNotTorn ==
  \A y \in DOMAIN seasonsData :
    SeasonRead(y) =>
      /\ res.body.season = seasonsData[y]
      /\ Recalculated(res.body.season) = res.body.season

\* a read that follows a week edit returns the edited week and the win it gives
ReadNotTornWitness ==
  /\ SeasonRead("2024") /\ Recomputed("2024")
  /\ "1" \in DOMAIN res.body.season.weeks
  /\ \E i \in DOMAIN res.body.season.weeks["1"] :
       Decided(res.body.season.weeks["1"][i]) /\ res.body.season.weeks["1"][i].team1 = "A"
  /\ RowOf(res.body.season, "A").wins = 1
  /\ RowOf(res.body.season, "A").place = 1

\* C17: within a week edit the week is stored, then the standings are
\* recomputed, then the file is written, then the caller is answered: the
\* standings of a successful response and of the file are the ones
\* recalculateStandings gives for the season with its weeks after the edit
EditThenRecompute ==
  [][(EditSucceeded' /\ last'.year \in DOMAIN seasonsData)
       => LET y == last'.year
              post == Recalculated([seasonsData[y] EXCEPT
                                      !.weeksKind = seasonsData'[y].weeksKind,
                                      !.weeks = seasonsData'[y].weeks])
          IN  /\ HoldsWeek(seasonsData'[y], last'.weekNum, last'.matchups)
              /\ res'.body.standings = post.standings
              /\ disk'[y].hasStandings = post.hasStandings
              /\ disk'[y].standings = post.standings]_vars

\* an edit that makes A beat B has been answered with A first, in a season whose
\* stored standings had B first, and the file holds the answered standings
EditThenRecomputeWitness ==
  /\ EditSucceeded /\ last.year = "2024" /\ Recomputed("2024")
  /\ \E i \in DOMAIN last.matchups : Decided(last.matchups[i]) /\ last.matchups[i].team1 = "A"
  /\ Len(res.body.standings) = Len(RosterNames)
  /\ res.body.standings[1].name = "A" /\ res.body.standings[1].wins = 1
  /\ res.body.standings[1].state = "legacy"
  /\ disk["2024"].standings = res.body.standings

\* the sum of f over the finite set S
RECURSIVE SumOver(_, _)
SumOver(f, S) ==
  IF S = {} THEN 0
  ELSE LET x == CHOOSE e \in S : TRUE IN f[x] + SumOver(f, S \ {x})

\* the positions <<week, index>> of the matchups of a season
Games(season) == UNION {{<<k, i>> : i \in DOMAIN season.weeks[k]} : k \in DOMAIN season.weeks}

GameAt(season, g) == season.weeks[g[1]][g[2]]

\* the matchups whose two names resolve to a team
Tallied(season) ==
  {g \in Games(season) :
     \A name \in {GameAt(season, g).team1, GameAt(season, g).team2} :
       name \in RosterSet(season) \cup ObjectPrototypeKeys}

\* what the matchup at g adds to the team: its own score to pf, the other
\* score to pa, and a win, loss or tie when the game is decided
Contribution(season, g, name) ==
  LET m == GameAt(season, g)
      s1 == parseScore(m.team1Score)
      s2 == parseScore(m.team2Score)
      on1 == IF m.team1 = name THEN 1 ELSE 0
      on2 == IF m.team2 = name THEN 1 ELSE 0
      d == IF Decided(m) THEN 1 ELSE 0
  IN  [wins |-> d * ((IF s1 > s2 THEN on1 ELSE 0) + (IF s2 > s1 THEN on2 ELSE 0)),
       losses |-> d * ((IF s1 < s2 THEN on1 ELSE 0) + (IF s2 < s1 THEN on2 ELSE 0)),
       ties |-> d * (IF s1 = s2 THEN on1 + on2 ELSE 0),
       pf |-> on1 * s1 + on2 * s2,
       pa |-> on1 * s2 + on2 * s1]

\* the stats of a team derived from the weeks of the season
Derived(season, name) ==
  [field \in DOMAIN ZeroStats |->
     SumOver([g \in Tallied(season) |-> Contribution(season, g, name)[field]], Tallied(season))]

StatsOf(row) == [field \in DOMAIN ZeroStats |-> row[field]]

\* a read of the season has just recomputed it
ReadRecomputes(y) ==
  /\ y \in DOMAIN seasonsData /\ ~Skips(seasonsData[y])
  /\ last'.op = "getSeason" /\ last'.year = y

HasCompletedGame(season) == \E g \in Tallied(season) : Decided(GameAt(season, g))

WithoutGame(season, g) ==
  [season EXCEPT
     !.hasStandings = FALSE,
     !.standings = <<>>,
     !.weeks[g[1]] = [i \in 1..(Len(@) - 1) |-> IF i < g[2] THEN @[i] ELSE @[i + 1]]]

\* what a played matchup is to add to a team: a win to the higher score, a loss
\* to the lower, a tie to both on equal scores, the own score to pf and the
\* other score to pa; nothing to a team that is not in the matchup
Gain(m, name) ==
  LET s1 == parseScore(m.team1Score)
      s2 == parseScore(m.team2Score)
      own == IF name = m.team1 THEN s1 ELSE s2
      other == IF name = m.team1 THEN s2 ELSE s1
  IN  IF name \notin {m.team1, m.team2} THEN ZeroStats
      ELSE [wins |-> IF own > other THEN 1 ELSE 0,
            losses |-> IF own < other THEN 1 ELSE 0,
            ties |-> IF own = other THEN 1 ELSE 0,
            pf |-> own, pa |-> other]

\* the matchup at g adds Gain to every team of the roster
AddsGain(season, g) ==
  LET without == Recalculated(WithoutGame(season, g))
  IN  \A name \in RosterSet(season) :
        LET gain == Gain(GameAt(season, g), name)
            before == RowOf(without, name)
            after == RowOf(season, name)
        IN  \A field \in DOMAIN ZeroStats : after[field] = before[field] + gain[field]

BetweenRosterTeams(season, m) ==
  m.team1 \in RosterSet(season) /\ m.team2 \in RosterSet(season) /\ m.team1 # m.team2

ZeroScoreGame(m) ==
  ~HasNullScore(m) /\ (m.team1Score = Num(0) \/ m.team2Score = Num(0))

\* a read recomputes a season that has no stored rows
FreshRead(y) == ReadRecomputes(y) /\ ~seasonsData[y].hasStandings

NoScoredWeek(season) == \A m \in AllMatchups(season) : HasNullScore(m)

\* C21: with zero scored weeks every row has wins, losses, ties, pf and pa at
\* zero and the places follow the roster order, also when an edit has just
\* removed the last scored matchup of a season that had scores
ZeroScoredWeeksZeroStats ==
  \A y \in DOMAIN seasonsData :
    (Recomputed(y) /\ NoScoredWeek(seasonsData[y])) =>
      \A i \in DOMAIN seasonsData[y].standings :
        /\ StatsOf(seasonsData[y].standings[i]) = ZeroStats
        /\ seasonsData[y].standings[i].name = seasonsData[y].teams[i].name
        /\ seasonsData[y].standings[i].place = i

\* the season with its playoff weeks emptied
RegularOnly(season) ==
  [season EXCEPT !.weeks = [k \in DOMAIN @ |-> IF WeekNumber(k) >= PlayoffStart THEN <<>> ELSE @[k]]]

\* C22: points scored in playoff weeks stay out of the regular pf and pa that
\* rank the teams: a season whose regular weeks hold a completed game has the
\* pf, pa and place of every team as they are without its playoff weeks
PlayoffPointsApart ==
  \A y \in DOMAIN seasonsData :
    (Recomputed(y) /\ HasCompletedGame(RegularOnly(seasonsData[y]))) =>
      LET regular == Recalculated(RegularOnly(seasonsData[y]))
      IN  \A name \in RosterSet(seasonsData[y]) :
            /\ RowOf(seasonsData[y], name).pf = RowOf(regular, name).pf
            /\ RowOf(seasonsData[y], name).pa = RowOf(regular, name).pa
            /\ RowOf(seasonsData[y], name).place = RowOf(regular, name).place

\* C23: a team without a checkpoint (fewer than two scored regular weeks, or no
\* stored previous place) is shown with a rank change of zero; any other team
\* with its previous place minus its place
RankChangeDefault ==
  \A y \in DOMAIN seasonsData :
    Recomputed(y) =>
      \A i \in DOMAIN seasonsData[y].standings :
        LET row == seasonsData[y].standings[i]
            noCheckpoint == \/ Cardinality(ScoredRegularWeeks(seasonsData[y])) < 2
                            \/ row.prevPlace = Absent
        IN  change(row) = IF noCheckpoint THEN 0 ELSE row.prevPlace - row.place

\* the season with the weeks of non-numeric keys emptied
NumericOnly(season) ==
  [season EXCEPT !.weeks = [k \in DOMAIN @ |-> IF k = FinalKey THEN <<>> ELSE @[k]]]

\* C24: a week whose key is not numeric is ignored: a season whose numeric
\* weeks hold a completed game has the standings it has without that week
NonNumericWeekIgnored ==
  \A y \in DOMAIN seasonsData :
    (Recomputed(y) /\ HasCompletedGame(NumericOnly(seasonsData[y]))) =>
      \A name \in RosterSet(seasonsData[y]) :
        StatsOf(RowOf(seasonsData[y], name))
          = StatsOf(RowOf(Recalculated(NumericOnly(seasonsData[y])), name))

\* the arrangements of a sequence
Perms(s) ==
  {[i \in DOMAIN s |-> s[p[i]]] :
     p \in {q \in [DOMAIN s -> DOMAIN s] : \A i, j \in DOMAIN s : q[i] = q[j] => i = j}}

\* the season with the matchups of every week in any order
MatchupOrders(season) ==
  {[season EXCEPT !.weeks = w] :
     w \in {v \in [DOMAIN season.weeks -> UNION {Perms(season.weeks[k]) : k \in DOMAIN season.weeks}] :
              \A k \in DOMAIN season.weeks : v[k] \in Perms(season.weeks[k])}}

\* the standings of a season whose weeks are walked in the given order
StandingsIn(season, order) ==
  LET acc == ProcessWeeks([stats |-> InitStats(season.teams), processedGames |-> 0,
                           warnings |-> {}], season.weeks, order)
      stats == IF acc.processedGames = 0 /\ season.hasStandings
               THEN Fallback(acc.stats, season.standings) ELSE acc.stats
  IN  AssignPlaces(Sort(BuildStandings(season, stats)))

RemoveGame(season, g) ==
  [season EXCEPT
     !.weeks[g[1]] = [i \in 1..(Len(@) - 1) |-> IF i < g[2] THEN @[i] ELSE @[i + 1]]]

\* exactly one of the two scores is present
OneScorePresent(m) == (m.team1Score = NullScore) # (m.team2Score = NullScore)

\* C26: a matchup between two roster teams with exactly one score present
\* adds that score to its team's pf and to the opponent's pa and changes no
\* team's wins, losses or ties: a read returns the rows of the season without
\* that matchup, with those points added
OneScoreAddsPoints ==
  [][\A y \in DOMAIN seasonsData :
       ReadRecomputes(y) =>
         \A g \in Games(seasonsData[y]) :
           (/\ BetweenRosterTeams(seasonsData[y], GameAt(seasonsData[y], g))
            /\ OneScorePresent(GameAt(seasonsData[y], g)))
             => LET rest == Recalculated(RemoveGame(seasonsData[y], g))
                IN  \A name \in RosterSet(seasonsData[y]) :
                      LET with == RowOf(seasonsData'[y], name)
                          without == RowOf(rest, name)
                          gain == Gain(GameAt(seasonsData[y], g), name)
                      IN  /\ \A field \in {"wins", "losses", "ties"} :
                               with[field] = without[field]
                          /\ \A field \in {"pf", "pa"} :
                               with[field] = without[field] + gain[field]]_vars

\* C27: after recompute the standings hold exactly one row per roster team
\* and no other row: as many rows as teams, every team named by one row,
\* every row naming a team
OneRowPerTeam ==
  \A y \in DOMAIN seasonsData :
    Recomputed(y) =>
      /\ Len(seasonsData[y].standings) = Len(seasonsData[y].teams)
      /\ \A i \in DOMAIN seasonsData[y].teams :
           Cardinality({j \in DOMAIN seasonsData[y].standings :
                          seasonsData[y].standings[j].name = seasonsData[y].teams[i].name}) = 1
      /\ \A j \in DOMAIN seasonsData[y].standings :
           seasonsData[y].standings[j].name \in RosterSet(seasonsData[y])

\* reached: the stored standings had a row of Z, which is not in the roster,
\* and no row of B; the recomputed standings have rows of A, B and C only
OneRowPerTeamWitness ==
  /\ "2024" \in DOMAIN seasonsData /\ Recomputed("2024")
  /\ disk["2024"].hasStandings
  /\ \E j \in DOMAIN disk["2024"].standings : disk["2024"].standings[j].name = "Z"
  /\ \A j \in DOMAIN disk["2024"].standings : disk["2024"].standings[j].name # "B"
  /\ {seasonsData["2024"].standings[j].name : j \in DOMAIN seasonsData["2024"].standings}
       = {"A", "B", "C"}
  /\ Len(seasonsData["2024"].standings) = Len(RosterNames)

\* the sum of a field over the rows of the standings
Total(season, field) ==
  SumOver([j \in DOMAIN season.standings |-> season.standings[j][field]],
          DOMAIN season.standings)

\* C28: after a recompute that tallied a game the wins of all teams sum to
\* their losses, the ties sum to an even number and the points-for sum to the
\* points-against
LeagueBalance ==
  \A y \in DOMAIN seasonsData :
    (Recomputed(y) /\ HasCompletedGame(seasonsData[y])) =>
      /\ Total(seasonsData[y], "wins") = Total(seasonsData[y], "losses")
      /\ Total(seasonsData[y], "ties") % 2 = 0
      /\ Total(seasonsData[y], "pf") = Total(seasonsData[y], "pa")

\* the season is in the array format, has no roster, or has no weeks object
NotRecomputable(season) ==
  season.isArray \/ ~season.hasTeams \/ season.weeksKind \in {"missing", "array"}

\* C29: recalculateStandings leaves such a season as it is, and so does every
\* read, of all seasons or of one
SkippedSeasonUnchanged ==
  [][\A y \in DOMAIN seasonsData :
       NotRecomputable(seasonsData[y]) =>
         /\ recalculateStandings(seasonsData, y) = seasonsData
         /\ last'.op \in {"getSeasons", "getSeason"} => seasonsData'[y] = seasonsData[y]]_vars

\* reached: all seasons have been read; 2024, which has a roster and stored
\* rows but a weeks array or no weeks, is as it was loaded, and 2019 has been
\* recomputed
SkippedSeasonUnchangedWitness ==
  /\ last.op = "getSeasons"
  /\ seasonsData["2024"].hasTeams /\ ~seasonsData["2024"].isArray
  /\ seasonsData["2024"].weeksKind \in {"missing", "array"}
  /\ seasonsData["2024"] = disk["2024"]
  /\ seasonsData["2019"] # disk["2019"]
  /\ \A j \in DOMAIN seasonsData["2019"].standings : seasonsData["2019"].standings[j].name # "Z"

\* the slots <<index, field>> of a week of the editor
Slots(matchups) == (DOMAIN matchups) \X {"team1", "team2"}

\* the slot holds a team
HoldsTeam(matchups, slot) ==
  Truthy(matchups[slot[1]][slot[2]]) /\ matchups[slot[1]][slot[2]] # BYE

\* C30: in the editor no team is in two slots of a week, and the options of
\* a slot hold no team of another slot of the week and hold the slot's own
\* team
NoTeamTwiceInWeek ==
  \A k \in DOMAIN editor.weeks :
    LET matchups == editor.weeks[k]
    IN  /\ \A s, t \in Slots(matchups) :
             (s # t /\ HoldsTeam(matchups, s)) =>
               matchups[s[1]][s[2]] # matchups[t[1]][t[2]]
        /\ \A s, t \in Slots(matchups) :
             (s # t /\ HoldsTeam(matchups, t)) =>
               matchups[t[1]][t[2]] \notin Options(editor.weeks, editor.teams, k, s[1], s[2])
        /\ \A s \in Slots(matchups) :
             HoldsTeam(matchups, s) =>
               matchups[s[1]][s[2]] \in Options(editor.weeks, editor.teams, k, s[1], s[2])

\* reached: the three teams are in three slots of the two matchups of week 1,
\* the fourth slot is offered no team, and A is also in week 15
NoTeamTwiceInWeekWitness ==
  /\ "1" \in DOMAIN editor.weeks /\ "15" \in DOMAIN editor.weeks
  /\ Len(editor.weeks["1"]) = 2
  /\ {editor.weeks["1"][1].team1, editor.weeks["1"][1].team2, editor.weeks["1"][2].team1}
       = {"A", "B", "C"}
  /\ editor.weeks["1"][2].team2 = NoSelection
  /\ Options(editor.weeks, editor.teams, "1", 2, "team2") = {NoSelection}
  /\ editor.weeks["15"][1].team1 = "A"

====
